---- MODULE Spec2Model ----
(***************************************************************************)
(* Model of task_one.py: the validated fields Phone and Birthday, the      *)
(* Record that aggregates a name, a list of Phone objects and an optional  *)
(* Birthday, and the AddressBook (a UserDict keyed by the record's name).  *)
(*                                                                         *)
(* A Python str is a sequence of code points (naturals); None is the empty *)
(* tuple and a present value x is the one-element tuple <<x>>.  A call     *)
(* that raises ValueError is a result record with raised = TRUE.           *)
(***************************************************************************)
EXTENDS Integers, Sequences, FiniteSets, TLC

VARIABLES heap, data, today, call, deleted

vars == <<heap, data, today, call, deleted>>

None == <<>>

Some(x) == <<x>>

(***************************************************************************)
(* Characters.  str.isdigit() is true of a non-empty string whose every    *)
(* character has the Unicode property Numeric_Type=Digit or Decimal; the   *)
(* regular expression class \d of a str pattern is Numeric_Type=Decimal    *)
(* (category Nd).  The model's alphabet holds the ASCII digits, the        *)
(* ARABIC-INDIC digits U+0660..U+0669 (Nd), the superscripts U+00B2,       *)
(* U+00B3, U+00B9 (Digit, not Decimal) and other ASCII characters.         *)
(***************************************************************************)
IsAsciiDigit(c) == c \in 48..57

IsDecimalChar(c) == c \in 48..57 \/ c \in 1632..1641

IsDigitChar(c) == IsDecimalChar(c) \/ c \in {178, 179, 185}

\* int() of one decimal character
DecimalValue(c) == IF c \in 48..57 THEN c - 48 ELSE c - 1632

\* str.isdigit()
isdigit(s) == Len(s) > 0 /\ \A i \in 1..Len(s) : IsDigitChar(s[i])

\* Phone.__validate_phone: the returned value, or ValueError
validate_phone(phone) ==
    IF Len(phone) # 10 THEN [raised |-> TRUE, value |-> None]
    ELSE IF ~isdigit(phone) THEN [raised |-> TRUE, value |-> None]
    ELSE [raised |-> FALSE, value |-> Some(phone)]

(***************************************************************************)
(* datetime.date: the proleptic Gregorian calendar, years 1..9999.         *)
(***************************************************************************)
IsLeap(y) == y % 4 = 0 /\ (y % 100 # 0 \/ y % 400 = 0)

DaysInMonth(y, m) ==
    IF m = 2 THEN (IF IsLeap(y) THEN 29 ELSE 28)
    ELSE IF m \in {4, 6, 9, 11} THEN 30 ELSE 31

\* the check of the date constructor
IsValidDate(y, m, d) ==
    /\ y \in 1..9999
    /\ m \in 1..12
    /\ d >= 1 /\ d <= DaysInMonth(y, m)

MkDate(y, m, d) == [year |-> y, month |-> m, day |-> d]

RECURSIVE DaysBeforeMonth(_, _)
DaysBeforeMonth(y, m) ==
    IF m = 1 THEN 0 ELSE DaysBeforeMonth(y, m - 1) + DaysInMonth(y, m - 1)

DaysBeforeYear(y) ==
    (y - 1) * 365 + ((y - 1) \div 4) - ((y - 1) \div 100) + ((y - 1) \div 400)

\* date.toordinal()
ToOrdinal(dt) == DaysBeforeYear(dt.year) + DaysBeforeMonth(dt.year, dt.month) + dt.day

\* date.__lt__
DateLess(a, b) ==
    \/ a.year < b.year
    \/ a.year = b.year /\ a.month < b.month
    \/ a.year = b.year /\ a.month = b.month /\ a.day < b.day

\* date.replace(year=y): the new date, or ValueError when it does not exist
ReplaceYear(dt, y) ==
    IF IsValidDate(y, dt.month, dt.day)
    THEN [raised |-> FALSE, value |-> Some(MkDate(y, dt.month, dt.day))]
    ELSE [raised |-> TRUE, value |-> None]

(***************************************************************************)
(* datetime.strptime(birthday, "%d.%m.%Y").  The format compiles to the    *)
(* regular expression                                                      *)
(*   (?P<d>3[0-1]|[1-2]\d|0[1-9]|[1-9]| [1-9])\.                            *)
(*   (?P<m>1[0-2]|0[1-9]|[1-9])\.(?P<Y>\d\d\d\d)                            *)
(* matched at the start of the string; text left after the match, or a day *)
(* the month does not have, is a ValueError.                               *)
(***************************************************************************)
\* the text t is matched whole by the group d
MatchesDay(t) ==
    \/ Len(t) = 2 /\ t[1] = 51 /\ t[2] \in 48..49
    \/ Len(t) = 2 /\ t[1] \in 49..50 /\ IsDecimalChar(t[2])
    \/ Len(t) = 2 /\ t[1] = 48 /\ t[2] \in 49..57
    \/ Len(t) = 1 /\ t[1] \in 49..57
    \/ Len(t) = 2 /\ t[1] = 32 /\ t[2] \in 49..57

\* the text t is matched whole by the group m
MatchesMonth(t) ==
    \/ Len(t) = 2 /\ t[1] = 49 /\ t[2] \in 48..50
    \/ Len(t) = 2 /\ t[1] = 48 /\ t[2] \in 49..57
    \/ Len(t) = 1 /\ t[1] \in 49..57

\* the text t is matched whole by the group Y
MatchesYear(t) == Len(t) = 4 /\ \A i \in 1..4 : IsDecimalChar(t[i])

\* int(t) of a text of decimal characters, a leading space skipped
RECURSIVE IntOf(_)
IntOf(t) ==
    IF Len(t) = 0 THEN 0
    ELSE IF t[Len(t)] = 32 THEN 0
    ELSE 10 * IntOf(SubSeq(t, 1, Len(t) - 1)) + DecimalValue(t[Len(t)])

\* the matches of the whole expression at the start of s: <<nd, nm>>, the
\* lengths of the day and month groups (the match ends at nd + nm + 6)
StrptimeMatches(s) ==
    { p \in (1..2) \X (1..2) :
        /\ Len(s) >= p[1] + p[2] + 6
        /\ MatchesDay(SubSeq(s, 1, p[1]))
        /\ s[p[1] + 1] = 46
        /\ MatchesMonth(SubSeq(s, p[1] + 2, p[1] + 1 + p[2]))
        /\ s[p[1] + p[2] + 2] = 46
        /\ MatchesYear(SubSeq(s, p[1] + p[2] + 3, p[1] + p[2] + 6)) }

\* datetime.strptime(s, "%d.%m.%Y").date(): the date, or ValueError
strptime(s) ==
    IF StrptimeMatches(s) = {} THEN [raised |-> TRUE, value |-> None]
    ELSE LET p == CHOOSE q \in StrptimeMatches(s) : TRUE
             d == IntOf(SubSeq(s, 1, p[1]))
             m == IntOf(SubSeq(s, p[1] + 2, p[1] + 1 + p[2]))
             y == IntOf(SubSeq(s, p[1] + p[2] + 3, p[1] + p[2] + 6))
         IN IF Len(s) # p[1] + p[2] + 6 THEN [raised |-> TRUE, value |-> None]
            ELSE IF ~IsValidDate(y, m, d) THEN [raised |-> TRUE, value |-> None]
            ELSE [raised |-> FALSE, value |-> Some(MkDate(y, m, d))]

\* Birthday.__validate_birthday: every ValueError of strptime is raised again
validate_birthday(birthday) == strptime(birthday)

\* the decimal digits of n >= 0, without padding
RECURSIVE Digits(_)
Digits(n) ==
    IF n < 10 THEN <<48 + n>> ELSE Append(Digits(n \div 10), 48 + (n % 10))

\* %d and %m of strftime: two digits, zero padded
Pad2(n) == <<48 + (n \div 10), 48 + (n % 10)>>

\* date.strftime("%d.%m.%Y") as Record.__str__ uses it; the C library's %Y
\* writes the year without padding
strftime(dt) == Pad2(dt.day) \o <<46>> \o Pad2(dt.month) \o <<46>> \o Digits(dt.year)

(***************************************************************************)
(* Phone objects.  Field defines no __eq__, so list.index and list.remove  *)
(* compare by identity: a Phone object is its identity oid and its value.  *)
(***************************************************************************)
\* Phone(phone): the object, or ValueError
Phone(phone, oid) ==
    LET v == validate_phone(phone)
    IN IF v.raised THEN [raised |-> TRUE, value |-> None]
       ELSE [raised |-> FALSE, value |-> Some([oid |-> oid, value |-> v.value[1]])]

\* Birthday(birthday): the object's value, or ValueError
Birthday(birthday) == validate_birthday(birthday)

\* the identity of a newly allocated Phone: one that no live Phone of the list has
NewOid(phones) ==
    CHOOSE n \in 1..(Len(phones) + 1) :
        /\ \A i \in 1..Len(phones) : phones[i].oid # n
        /\ \A m \in 1..(n - 1) : \E i \in 1..Len(phones) : phones[i].oid = m

\* list.index(obj): the first position holding the object obj, 0 when there is none
RECURSIVE ListIndexFrom(_, _, _)
ListIndexFrom(list, obj, i) ==
    IF i > Len(list) THEN 0
    ELSE IF list[i].oid = obj.oid THEN i
    ELSE ListIndexFrom(list, obj, i + 1)

ListIndex(list, obj) == ListIndexFrom(list, obj, 1)

\* the list without its element at position i
RemoveAt(list, i) == SubSeq(list, 1, i - 1) \o SubSeq(list, i + 1, Len(list))

\* list.remove(obj): removes the first position holding obj
ListRemove(list, obj) == RemoveAt(list, ListIndex(list, obj))

(***************************************************************************)
(* Record.  A method is an operator from the record's state and the        *)
(* arguments to [raised, rec, value]: whether it raised ValueError, the    *)
(* record's state after the call, and the returned value.                  *)
(***************************************************************************)
\* Record.__init__
NewRecord(name) == [name |-> name, phones |-> <<>>, birthday |-> None]

\* Record.find_phone: the first Phone whose value is phone
RECURSIVE FindPhoneFrom(_, _, _)
FindPhoneFrom(phones, phone, i) ==
    IF i > Len(phones) THEN [raised |-> TRUE, value |-> None]
    ELSE IF phones[i].value = phone THEN [raised |-> FALSE, value |-> Some(phones[i])]
    ELSE FindPhoneFrom(phones, phone, i + 1)

find_phone(rec, phone) ==
    LET f == FindPhoneFrom(rec.phones, phone, 1)
    IN [raised |-> f.raised, rec |-> rec, value |-> f.value]

\* Record.add_phone
MutAddPhoneUnvalidated(rec, phone) ==
    LET obj == [oid |-> NewOid(rec.phones), value |-> phone]
        put == [rec EXCEPT !.phones = Append(@, obj)]
    IN [raised |-> validate_phone(phone).raised, rec |-> put, value |-> None]

add_phone(rec, phone) ==
    LET phone_obj == Phone(phone, NewOid(rec.phones))
    IN IF phone_obj.raised THEN [raised |-> TRUE, rec |-> rec, value |-> None]
       ELSE [raised |-> FALSE,
             rec |-> [rec EXCEPT !.phones = Append(@, phone_obj.value[1])],
             value |-> None]

\* Record.remove_phone
MutRemoveLastMatch(rec, phone) ==
    LET hits == {i \in 1..Len(rec.phones) : rec.phones[i].value = phone}
    IN IF hits = {} THEN [raised |-> TRUE, rec |-> rec, value |-> None]
       ELSE [raised |-> FALSE,
             rec |-> [rec EXCEPT !.phones =
                        RemoveAt(@, CHOOSE i \in hits : \A j \in hits : j <= i)],
             value |-> None]

remove_phone(rec, phone) ==
    LET phone_obj == find_phone(rec, phone)
    IN IF phone_obj.raised THEN [raised |-> TRUE, rec |-> rec, value |-> None]
       ELSE [raised |-> FALSE,
             rec |-> [rec EXCEPT !.phones = ListRemove(@, phone_obj.value[1])],
             value |-> None]

\* Record.edit_phone
MutEditRemoveAppend(rec, old_phone, new_phone) ==
    LET old_phone_obj == find_phone(rec, old_phone)
        new_phone_obj == Phone(new_phone, NewOid(rec.phones))
    IN IF old_phone_obj.raised \/ new_phone_obj.raised
       THEN [raised |-> TRUE, rec |-> rec, value |-> None]
       ELSE [raised |-> FALSE,
             rec |-> [rec EXCEPT !.phones =
                        Append(ListRemove(@, old_phone_obj.value[1]),
                               new_phone_obj.value[1])],
             value |-> None]

edit_phone(rec, old_phone, new_phone) ==
    LET old_phone_obj == find_phone(rec, old_phone)
    IN IF old_phone_obj.raised THEN [raised |-> TRUE, rec |-> rec, value |-> None]
       ELSE LET new_phone_obj == Phone(new_phone, NewOid(rec.phones))
            IN IF new_phone_obj.raised
               THEN [raised |-> TRUE, rec |-> rec, value |-> None]
               ELSE LET index == ListIndex(rec.phones, old_phone_obj.value[1])
                    IN [raised |-> FALSE,
                        rec |-> [rec EXCEPT !.phones[index] = new_phone_obj.value[1]],
                        value |-> None]

\* Record.add_birthday
add_birthday(rec, birthday) ==
    LET b == Birthday(birthday)
    IN IF b.raised THEN [raised |-> TRUE, rec |-> rec, value |-> None]
       ELSE [raised |-> FALSE, rec |-> [rec EXCEPT !.birthday = b.value], value |-> None]

\* Record.days_to_birthday, with datetime.now().date() = now
days_to_birthday(rec, now) ==
    IF rec.birthday = None THEN [raised |-> FALSE, rec |-> rec, value |-> None]
    ELSE LET first == ReplaceYear(rec.birthday[1], now.year)
         IN IF first.raised THEN [raised |-> TRUE, rec |-> rec, value |-> None]
            ELSE LET again == IF DateLess(first.value[1], now)
                              THEN ReplaceYear(first.value[1], now.year + 1)
                              ELSE first
                 IN IF again.raised THEN [raised |-> TRUE, rec |-> rec, value |-> None]
                    ELSE [raised |-> FALSE, rec |-> rec,
                          value |-> Some(ToOrdinal(again.value[1]) - ToOrdinal(now))]

\* the birthday part of Record.__str__
birthday_str(rec) ==
    IF rec.birthday = None THEN None ELSE Some(strftime(rec.birthday[1]))

(***************************************************************************)
(* AddressBook.  UserDict.data is a dict: a sequence of entries in         *)
(* insertion order, each a key and the Record object (its place in heap)   *)
(* stored under it.                                                        *)
(***************************************************************************)
\* name in self.data
DictHas(d, k) == \E i \in 1..Len(d) : d[i].key = k

DictPos(d, k) == CHOOSE i \in 1..Len(d) : d[i].key = k

\* self.data[name]
DictGet(d, k) == d[DictPos(d, k)].rec

\* self.data[k] = r: a present key keeps its place, a new key goes last
DictSet(d, k, r) ==
    IF DictHas(d, k) THEN [d EXCEPT ![DictPos(d, k)].rec = r]
    ELSE Append(d, [key |-> k, rec |-> r])

\* del self.data[k]
DictDel(d, k) == RemoveAt(d, DictPos(d, k))

\* AddressBook.add_record: keyed by record.name.value
MutAddRecordKeepFirst(d, h, r) ==
    IF DictHas(d, h[r].name) THEN [raised |-> FALSE, data |-> d, value |-> None]
    ELSE [raised |-> FALSE, data |-> DictSet(d, h[r].name, r), value |-> None]

MutAddRecordStaleKey(d, h, r) ==
    [raised |-> FALSE, data |-> DictSet(d, h[1].name, r), value |-> None]

add_record(d, h, r) ==
    [raised |-> FALSE, data |-> DictSet(d, h[r].name, r), value |-> None]

\* AddressBook.find
find(d, name) ==
    IF DictHas(d, name)
    THEN [raised |-> FALSE, data |-> d, value |-> Some(DictGet(d, name))]
    ELSE [raised |-> TRUE, data |-> d, value |-> None]

\* AddressBook.delete
MutDeleteSwapRemove(d, name) ==
    IF DictHas(d, name)
    THEN [raised |-> FALSE,
          data |-> SubSeq([d EXCEPT ![DictPos(d, name)] = d[Len(d)]], 1, Len(d) - 1),
          value |-> None]
    ELSE [raised |-> TRUE, data |-> d, value |-> None]

delete(d, name) ==
    IF DictHas(d, name)
    THEN [raised |-> FALSE, data |-> DictDel(d, name), value |-> None]
    ELSE [raised |-> TRUE, data |-> d, value |-> None]

\* the loop of AddressBook.get_upcoming_birthdays from entry i on, with the
\* list built so far; a ValueError of days_to_birthday ends the call
RECURSIVE UpcomingFrom(_, _, _, _, _, _)
UpcomingFrom(d, h, days, now, i, upcoming_birthdays) ==
    IF i > Len(d) THEN [raised |-> FALSE, value |-> Some(upcoming_birthdays)]
    ELSE LET record == h[d[i].rec]
         IN IF record.birthday = None
            THEN UpcomingFrom(d, h, days, now, i + 1, upcoming_birthdays)
            ELSE LET dtb == days_to_birthday(record, now)
                 IN IF dtb.raised THEN [raised |-> TRUE, value |-> None]
                    ELSE IF dtb.value # None /\ dtb.value[1] <= days
                    THEN UpcomingFrom(d, h, days, now, i + 1,
                                      Append(upcoming_birthdays, d[i].rec))
                    ELSE UpcomingFrom(d, h, days, now, i + 1, upcoming_birthdays)

\* AddressBook.get_upcoming_birthdays: the Record objects, in the dict's order
get_upcoming_birthdays(d, h, days, now) ==
    LET u == UpcomingFrom(d, h, days, now, 1, <<>>)
    IN [raised |-> u.raised, data |-> d, value |-> u.value]

(***************************************************************************)
(* Bounds and inputs.                                                      *)
(***************************************************************************)
\* the longest phone list of a Record
MaxPhones == 3

\* the Record objects constructed in SpecBook
MaxRecords == 2
\* the Records constructed in SpecDelete, at most
MaxDeleteRecords == 3

\* "0937777777", "5555555555" (main), ten ARABIC-INDIC digits, ten SUPERSCRIPT
\* TWO, "123", "12345678ab", "12345678901", ""
Phone0937 == <<48, 57, 51, 55, 55, 55, 55, 55, 55, 55>>

Phone5555 == <<53, 53, 53, 53, 53, 53, 53, 53, 53, 53>>

PhoneArabic == <<1633, 1634, 1635, 1636, 1637, 1638, 1639, 1640, 1641, 1632>>

PhoneShort == <<49, 50, 51>>

PhoneLetters == <<49, 50, 51, 52, 53, 54, 55, 56, 97, 98>>

PhoneSuperscript == <<178, 178, 178, 178, 178, 178, 178, 178, 178, 178>>

PhoneLong == <<49, 50, 51, 52, 53, 54, 55, 56, 57, 48, 49>>

PhoneEmpty == <<>>

PhoneInputs == {Phone0937, Phone5555, PhoneShort, PhoneLetters}

PhoneTexts ==
    {Phone0937, PhoneArabic, PhoneSuperscript, PhoneShort, PhoneLetters, PhoneLong,
     PhoneEmpty}

BookPhoneInputs == {Phone0937}

\* "25.12.1990", "01.01.1995" (main), "29.02.2000", "31.02.2000"
Bday2512 == <<50, 53, 46, 49, 50, 46, 49, 57, 57, 48>>

Bday0101 == <<48, 49, 46, 48, 49, 46, 49, 57, 57, 53>>

BdayFeb29 == <<50, 57, 46, 48, 50, 46, 50, 48, 48, 48>>

BdayFeb31 == <<51, 49, 46, 48, 50, 46, 50, 48, 48, 48>>

RecordBirthdayInputs == {Bday2512, Bday0101, BdayFeb31}

BookBirthdayInputs == {Bday2512, BdayFeb29}

Names == {"John", "Jane"}
\* the names of SpecDelete: the three of main
DeleteNames == {"John", "Jane", "Vovan"}

\* the window of get_upcoming_birthdays: negative, one below the distance of
\* 25 December from BookToday, and that distance (the default, 7)
WindowInputs == {-1, 6, 7}

\* datetime.now().date() in Spec and SpecBook: 18 December 2025
BookToday == MkDate(2025, 12, 18)

(***************************************************************************)
(* The state: heap, the Record objects constructed so far (an object is    *)
(* its place in heap); data, the AddressBook's dict; today, the date       *)
(* datetime.now() gives; call, the last call made and its outcome;         *)
(* deleted, a history kept by SpecDelete alone: for every name deleted and *)
(* not added since, the name and the dict it was deleted from.             *)
(***************************************************************************)
NoCall == [op |-> "none", rec |-> 0, args |-> <<>>, raised |-> FALSE, value |-> None]

RecordCall(r, op, args, res) ==
    /\ heap' = [heap EXCEPT ![r] = res.rec]
    /\ call' = [op |-> op, rec |-> r, args |-> args,
                raised |-> res.raised, value |-> res.value]
    /\ UNCHANGED <<data, today, deleted>>

BookCall(r, op, args, res) ==
    /\ data' = res.data
    /\ call' = [op |-> op, rec |-> r, args |-> args,
                raised |-> res.raised, value |-> res.value]
    /\ UNCHANGED <<heap, today>>

\* r = Record(name)
CreateRecord(name, max_records) ==
    /\ Len(heap) < max_records
    /\ heap' = Append(heap, NewRecord(name))
    /\ call' = [op |-> "Record", rec |-> Len(heap) + 1, args |-> <<name>>,
                raised |-> FALSE, value |-> None]
    /\ UNCHANGED <<data, today, deleted>>

\* r.add_phone(phone), while the list stays within MaxPhones
AddPhone(r, phone) ==
    /\ r \in 1..Len(heap)
    /\ Len(add_phone(heap[r], phone).rec.phones) <= MaxPhones
    /\ RecordCall(r, "add_phone", <<phone>>, add_phone(heap[r], phone))

RemovePhone(r, phone) ==
    /\ r \in 1..Len(heap)
    /\ RecordCall(r, "remove_phone", <<phone>>, remove_phone(heap[r], phone))

EditPhone(r, old_phone, new_phone) ==
    /\ r \in 1..Len(heap)
    /\ RecordCall(r, "edit_phone", <<old_phone, new_phone>>,
                  edit_phone(heap[r], old_phone, new_phone))

FindPhone(r, phone) ==
    /\ r \in 1..Len(heap)
    /\ RecordCall(r, "find_phone", <<phone>>, find_phone(heap[r], phone))

AddBirthday(r, birthday) ==
    /\ r \in 1..Len(heap)
    /\ RecordCall(r, "add_birthday", <<birthday>>, add_birthday(heap[r], birthday))

DaysToBirthday(r) ==
    /\ r \in 1..Len(heap)
    /\ RecordCall(r, "days_to_birthday", <<>>, days_to_birthday(heap[r], today))

\* str(r): the birthday it renders
Str(r) ==
    /\ r \in 1..Len(heap)
    /\ RecordCall(r, "str", <<>>,
                  [raised |-> FALSE, rec |-> heap[r], value |-> birthday_str(heap[r])])

AddRecord(r) ==
    /\ r \in 1..Len(heap)
    /\ BookCall(r, "add_record", <<>>, add_record(data, heap, r))
    /\ UNCHANGED deleted

Find(name) ==
    /\ BookCall(0, "find", <<name>>, find(data, name))
    /\ UNCHANGED deleted

Delete(name) ==
    /\ BookCall(0, "delete", <<name>>, delete(data, name))
    /\ UNCHANGED deleted

GetUpcomingBirthdays(days) ==
    /\ BookCall(0, "get_upcoming_birthdays", <<days>>,
                get_upcoming_birthdays(data, heap, days, today))
    /\ UNCHANGED deleted

\* book.add_record(r), which ends the history of a delete of r's name
AddRecordNoted(r) ==
    /\ r \in 1..Len(heap)
    /\ BookCall(r, "add_record", <<>>, add_record(data, heap, r))
    /\ deleted' = { h \in deleted : h.name # heap[r].name }

\* book.delete(name), which when it succeeds notes the name and the dict
\* it was deleted from
DeleteNoted(name) ==
    /\ BookCall(0, "delete", <<name>>, delete(data, name))
    /\ deleted' = IF delete(data, name).raised THEN deleted
                  ELSE deleted \cup {[name |-> name, before |-> data]}

(***************************************************************************)
(* Spec: one Record, "John", and every call on its phones and birthday.    *)
(***************************************************************************)
Init ==
    /\ heap = <<NewRecord("John")>>
    /\ data = <<>>
    /\ today = BookToday
    /\ call = NoCall
    /\ deleted = {}

Next ==
    \/ \E phone \in PhoneInputs : AddPhone(1, phone)
    \/ \E phone \in PhoneInputs : RemovePhone(1, phone)
    \/ \E old_phone \in PhoneInputs, new_phone \in PhoneInputs :
          EditPhone(1, old_phone, new_phone)
    \/ \E phone \in PhoneInputs : FindPhone(1, phone)
    \/ \E birthday \in RecordBirthdayInputs : AddBirthday(1, birthday)

Spec == Init /\ [][Next]_vars

(***************************************************************************)
(* SpecBook: an AddressBook, the Records constructed for it, and every     *)
(* call on the book interleaved with the calls on the Records.             *)
(***************************************************************************)
InitBook ==
    /\ heap = <<>>
    /\ data = <<>>
    /\ today = BookToday
    /\ call = NoCall
    /\ deleted = {}

\* the caller of SpecBook adds a phone only to a Record that does not list it
\* yet (duplicates are the business of Spec), which keeps the lists short
NextBook ==
    \/ \E name \in Names : CreateRecord(name, MaxRecords)
    \/ \E r \in 1..Len(heap), phone \in BookPhoneInputs :
          find_phone(heap[r], phone).raised /\ AddPhone(r, phone)
    \/ \E r \in 1..Len(heap), phone \in BookPhoneInputs : RemovePhone(r, phone)
    \/ \E r \in 1..Len(heap), old_phone \in BookPhoneInputs, new_phone \in BookPhoneInputs :
          EditPhone(r, old_phone, new_phone)
    \/ \E r \in 1..Len(heap), birthday \in BookBirthdayInputs : AddBirthday(r, birthday)
    \/ \E r \in 1..Len(heap) : AddRecord(r)
    \/ \E name \in Names : Find(name)
    \/ \E name \in Names : Delete(name)
    \/ \E days \in WindowInputs : GetUpcomingBirthdays(days)

SpecBook == InitBook /\ [][NextBook]_vars

(***************************************************************************)
(* SpecDelete: an AddressBook of up to three entries under three names,    *)
(* with the history of its deletes: every add_record, find and delete on   *)
(* Records that are only constructed.                                      *)
(***************************************************************************)
InitDelete ==
    /\ heap = <<>>
    /\ data = <<>>
    /\ today = BookToday
    /\ call = NoCall
    /\ deleted = {}

NextDelete ==
    \/ \E name \in DeleteNames : CreateRecord(name, MaxDeleteRecords)
    \/ \E r \in 1..Len(heap) : AddRecordNoted(r)
    \/ \E name \in DeleteNames : Find(name)
    \/ \E name \in DeleteNames : DeleteNoted(name)

SpecDelete == InitDelete /\ [][NextDelete]_vars

(***************************************************************************)
(* SpecPhone: the phone calls of Spec on texts of every kind the           *)
(* validation of Phone tells apart.                                        *)
(***************************************************************************)
NextPhone ==
    \/ \E phone \in PhoneTexts : AddPhone(1, phone)
    \/ \E phone \in PhoneTexts : RemovePhone(1, phone)
    \/ \E old_phone \in PhoneTexts, new_phone \in PhoneTexts :
          EditPhone(1, old_phone, new_phone)

SpecPhone == Init /\ [][NextPhone]_vars

(***************************************************************************)
(* SpecBirthday: Birthday(s) on texts put together from day, month and     *)
(* year parts and separators, and the rendering of the stored date.        *)
(***************************************************************************)
\* "01", "1", " 1", "29", "31", "32", "1" and ARABIC-INDIC ZERO
DayTexts ==
    {<<48, 49>>, <<49>>, <<32, 49>>, <<50, 57>>, <<51, 49>>, <<51, 50>>, <<49, 1632>>}

\* "01", "1", "02", "04", "13"
MonthTexts ==
    {<<48, 49>>, <<49>>, <<48, 50>>, <<48, 52>>, <<49, 51>>}

\* "1990", "2000", "0000", "199", "19900", "1990" in ARABIC-INDIC digits
YearTexts ==
    {<<49, 57, 57, 48>>, <<50, 48, 48, 48>>, <<48, 48, 48, 48>>, <<49, 57, 57>>, <<49, 57, 57, 48, 48>>,
     <<1633, 1641, 1641, 1632>>}

\* ".", "-"
SeparatorTexts == {<<46>>, <<45>>}

BirthdayTexts ==
    { d \o sep \o m \o sep \o y :
        d \in DayTexts, m \in MonthTexts, y \in YearTexts, sep \in SeparatorTexts }
    \cup { d \o <<46>> \o m \o <<46>> \o y \o <<32>> :
        d \in {<<48, 49>>}, m \in {<<48, 49>>}, y \in {<<49, 57, 57, 48>>} }
    \cup {<<>>}

NextBirthday ==
    \/ \E birthday \in BirthdayTexts : AddBirthday(1, birthday)
    \/ Str(1)

SpecBirthday == Init /\ [][NextBirthday]_vars

(***************************************************************************)
(* SpecDays: days_to_birthday of one Record over birthdays and current     *)
(* dates at the starts and ends of the months of leap and common years.    *)
(***************************************************************************)
DatesOf(years, days) ==
    { MkDate(y, m, d) : <<y, m, d>> \in
        { p \in years \X (1..12) \X days : IsValidDate(p[1], p[2], p[3]) } }

DaysTodays == DatesOf(2023..2025, {1, 28, 29, 31})

DaysBirthdayInputs == { strftime(dt) : dt \in DatesOf({2000}, {1, 28, 29, 31}) }

InitDays ==
    /\ heap = <<NewRecord("John")>>
    /\ data = <<>>
    /\ today \in DaysTodays
    /\ call = NoCall
    /\ deleted = {}

NextDays ==
    \/ \E birthday \in DaysBirthdayInputs : AddBirthday(1, birthday)
    \/ DaysToBirthday(1)

SpecDays == InitDays /\ [][NextDays]_vars

(***************************************************************************)
(* Properties.                                                             *)
(***************************************************************************)
\* the first position of phones whose value is v, 0 when there is none
FirstIndexOf(phones, v) ==
    IF \E i \in 1..Len(phones) : phones[i].value = v
    THEN CHOOSE i \in 1..Len(phones) :
            /\ phones[i].value = v
            /\ \A j \in 1..(i - 1) : phones[j].value # v
    ELSE 0

\* C1: a call of add_phone, add_birthday or edit_phone that raises leaves the
\* Record as it was: its name, its phones (objects and order) and its birthday.
C1_FailedCallLeavesRecordUnchanged ==
    [][(call'.op \in {"add_phone", "add_birthday", "edit_phone"} /\ call'.raised)
          => heap'[call'.rec] = heap[call'.rec]]_vars

\* a failed edit_phone of a listed phone to an invalid one, on a Record that
\* has phones and a birthday
C1_Witness ==
    /\ call.op = "edit_phone" /\ call.raised
    /\ FirstIndexOf(heap[1].phones, call.args[1]) # 0
    /\ validate_phone(call.args[2]).raised
    /\ Len(heap[1].phones) >= 2
    /\ heap[1].birthday # None

\* C2: every phone a Record lists is a string of exactly 10 ASCII digits.
C2_StoredPhonesAreTenAsciiDigits ==
    \A r \in 1..Len(heap) : \A i \in 1..Len(heap[r].phones) :
        LET v == heap[r].phones[i].value
        IN Len(v) = 10 /\ \A j \in 1..Len(v) : IsAsciiDigit(v[j])

\* C3: edit_phone(old, new) with old listed and new valid succeeds, keeps the
\* length, puts new at the first position whose value was old and leaves the
\* Phone at every other position the one it was.
C3_EditPhoneIsPositional ==
    [][call'.op = "edit_phone" =>
          LET before == heap[call'.rec].phones
              after == heap'[call'.rec].phones
              k == FirstIndexOf(before, call'.args[1])
          IN (k # 0 /\ ~validate_phone(call'.args[2]).raised) =>
                /\ ~call'.raised
                /\ Len(after) = Len(before)
                /\ after[k].value = call'.args[2]
                /\ \A j \in 1..Len(before) : j # k => after[j] = before[j]]_vars

\* the 2nd of 3 phones was edited, the 3rd being a duplicate of the old value
C3_Witness ==
    /\ call.op = "edit_phone" /\ ~call.raised
    /\ call.args[1] # call.args[2]
    /\ Len(heap[1].phones) = 3
    /\ heap[1].phones[1].value # call.args[1]
    /\ heap[1].phones[2].value = call.args[2]
    /\ heap[1].phones[3].value = call.args[1]

\* C4: days_to_birthday returns None without a birthday, and otherwise never
\* raises and returns a number >= 0 that is 0 exactly when the birthday's month
\* and day are today's.
C4_DaysToBirthdayReturns ==
    call.op = "days_to_birthday" =>
        IF heap[call.rec].birthday = None
        THEN ~call.raised /\ call.value = None
        ELSE /\ ~call.raised
             /\ call.value # None
             /\ call.value[1] >= 0
             /\ (call.value[1] = 0 <=>
                    /\ heap[call.rec].birthday[1].month = today.month
                    /\ heap[call.rec].birthday[1].day = today.day)

\* the Records of the dict, in its order, that have a birthday at most days away
UpcomingExpected(days) ==
    LET near(e) ==
            /\ heap[e.rec].birthday # None
            /\ ~days_to_birthday(heap[e.rec], today).raised
            /\ days_to_birthday(heap[e.rec], today).value[1] <= days
        kept == SelectSeq(data, near)
    IN [i \in 1..Len(kept) |-> kept[i].rec]

\* C5: get_upcoming_birthdays(days) never raises and returns exactly the Records
\* of the dict with a birthday at most days away, in the dict's order; for
\* negative days that is the empty list.
C5_UpcomingBirthdays ==
    call.op = "get_upcoming_birthdays" =>
        /\ ~call.raised
        /\ call.value = Some(UpcomingExpected(call.args[1]))
        /\ (call.args[1] < 0 => call.value = Some(<<>>))

\* C6: delete(name) of a present name removes that entry alone and keeps the
\* others (key, Record, place among the others) as they were; of an absent name
\* it raises and changes nothing; an absent name becomes present only by
\* add_record of a Record of that name, find of an absent name raises, and so
\* find of a name deleted and not added since raises.
C6_DeleteThenFindFails ==
    [][/\ (call'.op = "delete" =>
             LET gone(e) == e.key # call'.args[1]
             IN IF DictHas(data, call'.args[1])
                THEN /\ ~call'.raised
                     /\ data' = SelectSeq(data, gone)
                     /\ Len(data') = Len(data) - 1
                     /\ heap' = heap
                ELSE call'.raised /\ data' = data /\ heap' = heap)
       /\ \A name \in DeleteNames :
             (~DictHas(data, name) /\ DictHas(data', name)) =>
                 call'.op = "add_record" /\ heap[call'.rec].name = name
       /\ ((call'.op = "find" /\ ~DictHas(data, call'.args[1])) => call'.raised)
       /\ \A h \in deleted' : ~DictHas(data', h.name)
       /\ ((call'.op = "find" /\ \E h \in deleted : h.name = call'.args[1])
              => call'.raised /\ call'.value = None /\ data' = data)]_vars

\* the first of three entries was deleted, the other two are the dict, in
\* their order, and the find of the deleted name that followed has raised
C6_Witness ==
    /\ call.op = "find" /\ call.raised
    /\ \E h \in deleted :
          /\ h.name = call.args[1]
          /\ Len(h.before) = 3
          /\ h.before[1].key = h.name
          /\ data = <<h.before[2], h.before[3]>>

\* C7: add_record(r) never raises; afterwards find(r.name) returns r, the number
\* of entries has grown by one exactly when the name was absent, and the entries
\* under other names are the ones they were, at their places.
C7_AddRecordInsertsOrOverwrites ==
    [][call'.op = "add_record" =>
          LET name == heap[call'.rec].name
          IN /\ ~call'.raised
             /\ find(data', name) =
                    [raised |-> FALSE, data |-> data', value |-> Some(call'.rec)]
             /\ Len(data') = Len(data) + (IF DictHas(data, name) THEN 0 ELSE 1)
             /\ \A i \in 1..Len(data) :
                    /\ data'[i].key = data[i].key
                    /\ data[i].key # name => data'[i] = data[i]
             /\ heap' = heap]_vars

\* the second of two different Records of one name is the one stored under it
C7_Witness ==
    /\ call.op = "add_record"
    /\ Len(heap) = 2
    /\ Len(data) = 1
    /\ heap[1].name = heap[2].name
    /\ heap[1] # heap[2]
    /\ call.rec = 2
    /\ data[1] = [key |-> heap[2].name, rec |-> 2]

\* C8: Birthday(s) succeeds exactly when s is two digits, ".", two digits, ".",
\* four digits that name a date of the calendar, and the stored date then
\* renders as s.
StrictBirthdayText(s) ==
    /\ Len(s) = 10
    /\ s[3] = 46 /\ s[6] = 46
    /\ \A i \in {1, 2, 4, 5, 7, 8, 9, 10} : IsAsciiDigit(s[i])
    /\ IsValidDate(IntOf(SubSeq(s, 7, 10)), IntOf(SubSeq(s, 4, 5)), IntOf(SubSeq(s, 1, 2)))

C8_BirthdayStrictFormat ==
    call.op = "add_birthday" =>
        /\ ~call.raised <=> StrictBirthdayText(call.args[1])
        /\ ~call.raised => birthday_str(heap[call.rec]) = Some(call.args[1])

\* C9: remove_phone(raw) removes the first Phone whose value is raw and nothing
\* else, leaving the name and the birthday; when no Phone has that value it
\* raises and leaves the Record as it was.
C9_RemovePhoneRemovesFirstMatch ==
    [][call'.op = "remove_phone" =>
          LET before == heap[call'.rec]
              after == heap'[call'.rec]
              k == FirstIndexOf(before.phones, call'.args[1])
          IN IF k = 0 THEN call'.raised /\ after = before
             ELSE /\ ~call'.raised
                  /\ Len(after.phones) = Len(before.phones) - 1
                  /\ \A j \in 1..Len(after.phones) :
                        after.phones[j] = before.phones[IF j < k THEN j ELSE j + 1]
                  /\ after.name = before.name
                  /\ after.birthday = before.birthday]_vars

\* a phone was removed from three, and a later duplicate of it is still listed
C9_Witness ==
    /\ call.op = "remove_phone" /\ ~call.raised
    /\ Len(heap[1].phones) = 2
    /\ heap[1].phones[1].value # call.args[1]
    /\ heap[1].phones[2].value = call.args[1]
    /\ heap[1].birthday # None

\* C10: every key of the dict is the name of the Record stored under it, and
\* find(k) returns a Record of name k.
C10_KeysAreRecordNames ==
    /\ \A i \in 1..Len(data) : heap[data[i].rec].name = data[i].key
    /\ (call.op = "find" /\ ~call.raised) => heap[call.value[1]].name = call.args[1]

\* a phone of a Record the book holds was edited, the book holding two Records
C10_Witness ==
    /\ call.op = "edit_phone" /\ ~call.raised
    /\ Len(data) = 2
    /\ \E i \in 1..Len(data) : data[i].rec = call.rec
    /\ heap[call.rec].birthday # None

====
